---- MODULE Spec2Model ----
(***************************************************************************)
(* A model of python-kasa's KLAP transport (src/kasa/klaptransport.py):    *)
(* the KlapTransport session state machine driven by concurrent asyncio    *)
(* callers, and the KlapEncryptionSession sequence counter.                *)
(*                                                                         *)
(* asyncio is single-threaded and cooperative: a coroutine runs without    *)
(* interruption from one await to the next.  Each action below is one such *)
(* run: from the call (or from the completion of an awaited HTTP POST) to  *)
(* the next await, or to the return/raise that ends the call.              *)
(*                                                                         *)
(* Digests and ciphertexts are symbolic terms: sha256(x) is the tuple      *)
(* <<"sha256", x>>, so two digests are equal exactly when their inputs     *)
(* are.  The one digest whose bytes are read as a number (the IV digest,   *)
(* whose last 4 bytes give the initial seq) is given by a table of 4-byte  *)
(* values, IvDigestTail.                                                   *)
(***************************************************************************)
EXTENDS Integers, Sequences, FiniteSets, TLC

\* ------------------------------------------------------------------ bounds
NumTasks == 2       \* concurrent callers of one transport
MaxTicks == 1       \* clock advances in one behaviour
MaxCalls == 3       \* calls of handshake, send, close and login in one behaviour
MaxEncrypts == 3    \* encrypt calls on one KlapEncryptionSession used alone
MaxQueries == 3     \* calls of query and close on one TPLinkSmartHomeProtocol
MaxRetryCount == 1  \* the largest retry_count passed to query
MaxCancels == 1     \* cancellations of a caller of TPLinkSmartHomeProtocol
MaxTextLen == 2     \* characters of a text given to encrypt
MaxBytesLen == 3    \* bytes of a sequence given to the XOR generators

\* ------------------------------------------------------- program constants
SESSION_SECONDS == 86400
INITIALIZATION_VECTOR == 171

\* Python integers are unbounded, and the model checker's are 32 bits wide:
\* an integer n of the program is the pair of limbs [hi, lo] with
\* n = hi * 2^16 + lo and 0 <= lo < 2^16, which holds every value seq takes.
PyInt(hi, lo) == [hi |-> hi, lo |-> lo]
INT32_MAX == PyInt(2^15 - 1, 2^16 - 1)
INT32_MIN == PyInt(-(2^15), 0)

\* n + k for a small k >= 0
int_add(n, k) ==
    PyInt(n.hi + ((n.lo + k) \div 2^16), (n.lo + k) % 2^16)

Tasks == 1..NumTasks

\* Optional values: Python's None and a present value.
None == <<>>
Some(x) == <<x>>

SESSION_COOKIE_NAME == "TP_SESSIONID"
KASA_SETUP_EMAIL == "kasa@tp-link.net"
KASA_SETUP_PASSWORD == "kasaSetup"

Credentials(un, pw) == [username |-> un, password |-> pw]
BlankCreds == Credentials("", "")
KasaSetupCreds == Credentials(KASA_SETUP_EMAIL, KASA_SETUP_PASSWORD)
UserCreds == Credentials("user@example.com", "secret")
OtherCreds == Credentials("other@example.com", "hunter2")

\* The credentials a transport may be constructed with.
ConfiguredCreds == {UserCreds, BlankCreds}
\* The credentials the device may be bound to when it answers handshake1.
DeviceCreds == {UserCreds, KasaSetupCreds, BlankCreds, OtherCreds}

LocalSeeds == {1}        \* secrets.token_bytes(16), as small numbers
\* What the device makes up for one handshake1: its 16 random bytes (as a
\* small number) and the session id it sets as TP_SESSIONID.
DeviceSessions ==
    {[remote_seed |-> 1, session_id |-> "c1"],
     [remote_seed |-> 2, session_id |-> "c2"]}
Requests == {"{\"method\":\"get_device_info\"}"}

VARIABLES
    credentials,        \* self._credentials
    kasa_setup_auth_hash, \* self._kasa_setup_auth_hash: None or Some(hash)
    blank_auth_hash,    \* self._blank_auth_hash: None or Some(hash)
    handshake_done,     \* self._handshake_done
    session_expire_at,  \* self._session_expire_at: None or Some(time)
    session_cookie,     \* self._session_cookie: None or Some(value)
    encryption_session, \* self._encryption_session: None or Some(session)
    http_client,        \* self._http_client: None or Some(cookie jar)
    clients,            \* per httpx.AsyncClient made: the aclose calls on it
    device_cookie,      \* the TP_SESSIONID of the device's last 200 reply
                        \* to handshake1: None or Some(value)
    now,                \* time.time(), in whole seconds
    nticks,             \* how often the clock has advanced
    pc,                 \* per caller: "idle" or the POST it awaits
    loc,                \* per caller: the locals of its suspended coroutine
    last_result,        \* how the call that ended in the last step ended
    wire_last,          \* the last /app/request POST of the current session
    n_encrypt,          \* encrypt calls made on the current session
    ncalls              \* calls made so far

\* A KlapEncryptionSession used on its own, outside a transport.
VARIABLES
    ks,                 \* the session object
    ks_plain,           \* the msg of its last encrypt call: None or Some(msg)
    ks_blob,            \* what that call returned: None or Some(payload)
    ks_raised,          \* the exception that call raised, or ""
    ks_out,             \* the outcome of the decrypt call made since
    ks_n                \* encrypt calls made

\* A TPLinkSmartHomeProtocol (the transport of the XOR protocol).
VARIABLES
    reader,             \* self.reader: None or Some(connection)
    writer,             \* self.writer: None or Some(connection)
    query_lock,         \* self.query_lock: None or Some(the caller holding it)
    conns,              \* the TCP connections opened so far, by number
    xpc,                \* per caller: "idle" or the await it is suspended at
    xloc,               \* per caller: the locals of its suspended coroutine
    xresult,            \* how the call that ended in the last step ended
    nqueries,           \* calls of query and close made so far
    ncancels            \* cancellations so far

\* The static methods encrypt and decrypt of TPLinkSmartHomeProtocol and the
\* generators under them, applied to one text and to one byte sequence.
VARIABLES
    crypt_request,      \* a str: the sequence of its code points
    crypt_frame,        \* encrypt(crypt_request): None or Some(bytes)
    crypt_response,     \* decrypt(crypt_frame[4:]): None or Some(outcome)
    crypt_bytes,        \* a bytes object: the sequence of its bytes
    crypt_encoded,      \* bytes(_xor_payload(crypt_bytes)): None or Some
    crypt_decoded       \* bytes(_xor_encrypted_payload(crypt_bytes))

klap_vars == <<credentials, kasa_setup_auth_hash, blank_auth_hash,
               handshake_done, session_expire_at, session_cookie,
               encryption_session, http_client, clients, device_cookie, now,
               nticks, pc, loc, last_result, wire_last, n_encrypt, ncalls>>

session_vars == <<ks, ks_plain, ks_blob, ks_raised, ks_out, ks_n>>

xor_vars == <<reader, writer, query_lock, conns, xpc, xloc, xresult,
              nqueries, ncancels>>

crypt_vars == <<crypt_request, crypt_frame, crypt_response, crypt_bytes,
                crypt_encoded, crypt_decoded>>

\* The variables of the objects other than the KlapTransport.
not_klap_vars == <<session_vars, xor_vars, crypt_vars>>

vars == <<klap_vars, session_vars, xor_vars, crypt_vars>>

\* The four fields the spec calls the TransportSession state.
session_state == <<handshake_done, session_expire_at, session_cookie,
                   encryption_session>>

\* ----------------------------------------------------------- hash layer
md5(payload) == <<"md5", payload>>
sha256(payload) == <<"sha256", payload>>

generate_auth_hash(creds) ==
    md5(<<md5(creds.username), md5(creds.password)>>)

handshake1_seed_auth_hash(local_seed, remote_seed, auth_hash) ==
    sha256(<<local_seed, auth_hash>>)

handshake2_seed_auth_hash(local_seed, remote_seed, auth_hash) ==
    sha256(<<remote_seed, auth_hash>>)

\* ------------------------------------------------- 32-bit serialisation
InRange32(n) == INT32_MIN.hi <= n.hi /\ n.hi <= INT32_MAX.hi

\* int.to_bytes(4, "big", signed=True) for n in range (it raises
\* OverflowError otherwise, see encrypt): two's complement, big-endian.
to_bytes_4_signed(n) ==
    LET h == IF n.hi < 0 THEN n.hi + 2^16 ELSE n.hi
    IN <<h \div 256, h % 256, n.lo \div 256, n.lo % 256>>

\* int.from_bytes(b, "big", signed=True) for 4 bytes.
from_bytes_4_signed(b) ==
    LET h == b[1] * 256 + b[2]
    IN PyInt(IF h >= 2^15 THEN h - 2^16 ELSE h, b[3] * 256 + b[4])

\* The last 4 bytes of sha256("iv" + local_seed + remote_seed + user_hash).
\* The digest is arbitrary; the table covers a tail just below INT32_MAX
\* and a tail of all ones (-1), and gives any other seed INT32_MIN.
IvDigestTail(local_seed, remote_seed, user_hash) ==
    CASE remote_seed = 1 -> <<127, 255, 255, 254>>
      [] remote_seed = 2 -> <<255, 255, 255, 255>>
      [] OTHER -> <<128, 0, 0, 0>>

\* ------------------------------------------------ KlapEncryptionSession
key_derive(local_seed, remote_seed, user_hash) ==
    <<"sha256[:16]", "lsk", local_seed, remote_seed, user_hash>>

iv_derive(local_seed, remote_seed, user_hash) ==
    [iv |-> <<"sha256[:12]", "iv", local_seed, remote_seed, user_hash>>,
     seq |-> from_bytes_4_signed(
                 IvDigestTail(local_seed, remote_seed, user_hash))]

sig_derive(local_seed, remote_seed, user_hash) ==
    <<"sha256[:28]", "ldk", local_seed, remote_seed, user_hash>>

KlapEncryptionSession(local_seed, remote_seed, user_hash) ==
    [local_seed |-> local_seed,
     remote_seed |-> remote_seed,
     user_hash |-> user_hash,
     key |-> key_derive(local_seed, remote_seed, user_hash),
     iv |-> iv_derive(local_seed, remote_seed, user_hash).iv,
     seq |-> iv_derive(local_seed, remote_seed, user_hash).seq,
     sig |-> sig_derive(local_seed, remote_seed, user_hash)]

iv_seq(sess) == <<sess.iv, to_bytes_4_signed(sess.seq)>>

\* AES-128-CBC over PKCS7-padded data, as a term.
AesCbcEncrypt(key, iv, msg) == [key |-> key, iv |-> iv, padded |-> msg]

\* Decrypting under another key or IV yields bytes whose padding is invalid.
AesCbcDecryptUnpad(key, iv, ct) ==
    IF ct.key = key /\ ct.iv = iv
    THEN [raised |-> "", plain |-> ct.padded]
    ELSE [raised |-> "ValueError", plain |-> ""]

\* Mutant: the seq returned is the one before the increment.
encrypt_returns_old_seq(sess, msg) ==
    LET s1 == [sess EXCEPT !.seq = int_add(sess.seq, 1)]
    IN IF ~InRange32(s1.seq)
       THEN [session |-> s1, raised |-> "OverflowError",
             payload |-> None, seq |-> None]
       ELSE LET ciphertext == AesCbcEncrypt(s1.key, iv_seq(s1), msg)
                signature == sha256(<<s1.sig, to_bytes_4_signed(s1.seq),
                                      ciphertext>>)
            IN [session |-> s1, raised |-> "",
                payload |-> Some([signature |-> signature,
                                  ciphertext |-> ciphertext]),
                seq |-> Some(sess.seq)]

\* Mutant: the ciphertext is made under the IV of the seq before the
\* increment.
encrypt_increments_after(sess, msg) ==
    LET s1 == [sess EXCEPT !.seq = int_add(sess.seq, 1)]
    IN IF ~InRange32(s1.seq)
       THEN [session |-> s1, raised |-> "OverflowError",
             payload |-> None, seq |-> None]
       ELSE LET ciphertext == AesCbcEncrypt(sess.key, iv_seq(sess), msg)
                signature == sha256(<<s1.sig, to_bytes_4_signed(s1.seq),
                                      ciphertext>>)
            IN [session |-> s1, raised |-> "",
                payload |-> Some([signature |-> signature,
                                  ciphertext |-> ciphertext]),
                seq |-> Some(s1.seq)]

\* encrypt: the session after the call, and either the returned
\* (payload, seq) or the exception raised.  The increment comes first; the
\* serialisation of seq in _iv_seq raises OverflowError outside 32 bits and
\* leaves the incremented seq behind.
encrypt(sess, msg) ==
    LET s1 == [sess EXCEPT !.seq = int_add(sess.seq, 1)]
    IN IF ~InRange32(s1.seq)
       THEN [session |-> s1, raised |-> "OverflowError",
             payload |-> None, seq |-> None]
       ELSE LET ciphertext == AesCbcEncrypt(s1.key, iv_seq(s1), msg)
                signature == sha256(<<s1.sig, to_bytes_4_signed(s1.seq),
                                      ciphertext>>)
            IN [session |-> s1, raised |-> "",
                payload |-> Some([signature |-> signature,
                                  ciphertext |-> ciphertext]),
                seq |-> Some(s1.seq)]

\* Mutant: decrypt advances the counter as encrypt does.
decrypt_increments(sess, msg) ==
    IF ~InRange32(sess.seq)
    THEN [session |-> sess, raised |-> "OverflowError", plain |-> ""]
    ELSE LET r == AesCbcDecryptUnpad(sess.key, iv_seq(sess), msg.ciphertext)
         IN [session |-> [sess EXCEPT !.seq = int_add(sess.seq, 1)],
             raised |-> r.raised, plain |-> r.plain]

\* decrypt: msg[32:] is the ciphertext, the signature is not verified.
decrypt(sess, msg) ==
    IF ~InRange32(sess.seq)
    THEN [session |-> sess, raised |-> "OverflowError", plain |-> ""]
    ELSE LET r == AesCbcDecryptUnpad(sess.key, iv_seq(sess), msg.ciphertext)
         IN [session |-> sess, raised |-> r.raised, plain |-> r.plain]

\* ------------------------------------------------------- KlapTransport
\* Mutant: the session counts as expired only after the expiry time.
handshake_session_expired_strict ==
    \/ session_expire_at = None
    \/ session_expire_at[1] - now < 0

handshake_session_expired ==
    \/ session_expire_at = None
    \/ session_expire_at[1] - now <= 0

\* Mutant: the expiry time is not consulted.
needs_handshake_ignores_expiry == ~handshake_done

needs_handshake == ~handshake_done \/ handshake_session_expired

\* Mutant: a transport that asks for a login.
needs_login_true == TRUE

needs_login == FALSE

\* Python's None is falsy and so is an empty cookie value; the cookie values
\* of this model are non-empty.
client_post_cookies(cookie) ==
    IF cookie # None THEN {<<SESSION_COOKIE_NAME, cookie[1]>>} ELSE {}

\* client_post up to its await: a missing client is created, and the
\* client's cookie jar is cleared.
client_post_client == Some({})

\* The clients made so far, after client_post has made the missing one.
client_post_clients ==
    IF http_client = None THEN Append(clients, 0) ELSE clients

\* Mutant: close calls aclose whether or not there is a client.
aclose_calls_unguarded(client, calls) ==
    [calls EXCEPT ![Len(calls)] = @ + 1]

\* close: "if client: await client.aclose()", on the client made last.
aclose_calls(client, calls) ==
    IF client # None THEN [calls EXCEPT ![Len(calls)] = @ + 1] ELSE calls

\* httpx.Cookies.get(name)
cookies_get(jar, name) ==
    IF \E c \in jar : c[1] = name
    THEN Some((CHOOSE c \in jar : c[1] = name)[2])
    ELSE None

\* httpx stores the Set-Cookie headers of a response in the jar of the
\* client that sent the request.
extract_cookies(jar, set_cookie) ==
    {c \in jar : ~\E d \in set_cookie : d[1] = c[1]} \cup set_cookie

\* Mutant: the kasa-setup credentials are not a candidate.
handshake1_auth_hash_no_setup(local_seed, remote_seed, server_hash) ==
    LET local_auth_hash == generate_auth_hash(credentials)
        blank_hash == generate_auth_hash(BlankCreds)
    IN IF handshake1_seed_auth_hash(local_seed, remote_seed, local_auth_hash)
            = server_hash
       THEN Some(local_auth_hash)
       ELSE IF /\ credentials # BlankCreds
               /\ handshake1_seed_auth_hash(local_seed, remote_seed,
                                            blank_hash) = server_hash
       THEN Some(blank_hash)
       ELSE None

\* perform_handshake1 after the POST returned 200: the auth hash the
\* credential ladder settles on, or None when it raises.
handshake1_auth_hash(local_seed, remote_seed, server_hash) ==
    LET local_auth_hash == generate_auth_hash(credentials)
        kasa_setup_hash == generate_auth_hash(KasaSetupCreds)
        blank_hash == generate_auth_hash(BlankCreds)
    IN IF handshake1_seed_auth_hash(local_seed, remote_seed, local_auth_hash)
            = server_hash
       THEN Some(local_auth_hash)
       ELSE IF handshake1_seed_auth_hash(local_seed, remote_seed,
                                         kasa_setup_hash) = server_hash
       THEN Some(kasa_setup_hash)
       ELSE IF /\ credentials # BlankCreds
               /\ handshake1_seed_auth_hash(local_seed, remote_seed,
                                            blank_hash) = server_hash
       THEN Some(blank_hash)
       ELSE None

\* What the ladder leaves in _kasa_setup_auth_hash: the hash is generated
\* when the configured credentials did not match and it was not yet there.
handshake1_kasa_setup_auth_hash(local_seed, remote_seed, server_hash) ==
    IF handshake1_seed_auth_hash(local_seed, remote_seed,
                                 generate_auth_hash(credentials))
            = server_hash
    THEN kasa_setup_auth_hash
    ELSE Some(generate_auth_hash(KasaSetupCreds))

\* What the ladder leaves in _blank_auth_hash: the hash is generated when
\* neither of the first two candidates matched and the configured
\* credentials are not blank.
handshake1_blank_auth_hash(local_seed, remote_seed, server_hash) ==
    IF \/ handshake1_seed_auth_hash(local_seed, remote_seed,
                                    generate_auth_hash(credentials))
               = server_hash
       \/ handshake1_seed_auth_hash(local_seed, remote_seed,
                                    generate_auth_hash(KasaSetupCreds))
               = server_hash
       \/ credentials = BlankCreds
    THEN blank_auth_hash
    ELSE Some(generate_auth_hash(BlankCreds))

\* Mutant: a session one second shorter.
session_expiry_short(t0) == t0 + SESSION_SECONDS - 1

\* time.time() + 86400 in perform_handshake
session_expiry(t0) == t0 + SESSION_SECONDS

\* Mutant: a 403 does not clear the flag.
send_status_keeps_handshake_done(status) == handshake_done

\* What send leaves in _handshake_done for a response status other than 200.
send_status_handshake_done(status) ==
    IF status = 403 THEN FALSE ELSE handshake_done

\* The exception send raises for a response status other than 200.
send_status_exception(status) ==
    IF status = 403
    THEN "AuthenticationException"
    ELSE "SmartDeviceException: Device responded with status to request"

JsonTexts == {"{\"error_code\":0}"}
ResponseTexts == JsonTexts \cup {"not json"}
json_loads_raises(text) == text \notin JsonTexts

\* ---------------------------------------------------------- the device
HttpStatuses == {200, 403, 500}

\* The device may leave out the Set-Cookie headers of a handshake1 reply.
Handshake1Responses(local_seed) ==
    [kind : {"neterr"}, status : {0}, remote_seed : {0},
     server_hash : {None}, set_cookie : {{}}]
    \cup [kind : {"http"}, status : HttpStatuses \ {200}, remote_seed : {0},
          server_hash : {None}, set_cookie : {{}}]
    \cup {[kind |-> "http", status |-> 200,
           remote_seed |-> d.remote_seed,
           server_hash |-> Some(handshake1_seed_auth_hash(
                                    local_seed, d.remote_seed,
                                    generate_auth_hash(c))),
           set_cookie |-> ck]
          : <<d, c, ck>> \in
                {<<d, c, ck>> \in DeviceSessions \X DeviceCreds \X
                     {{}, {<<SESSION_COOKIE_NAME, "c1">>, <<"TIMEOUT", "86400">>},
                      {<<SESSION_COOKIE_NAME, "c2">>, <<"TIMEOUT", "86400">>}} :
                    \/ ck = {}
                    \/ <<SESSION_COOKIE_NAME, d.session_id>> \in ck}}

Handshake2Responses ==
    [kind : {"neterr"}, status : {0}]
    \cup [kind : {"http"}, status : HttpStatuses]

\* The body of a 200 reply to a request: a reply encrypted under the key and
\* IV of the request the device received, or bytes that are no such reply.
RequestResponses(payload) ==
    [kind : {"neterr"}, status : {0}, body : {None}]
    \cup [kind : {"http"}, status : HttpStatuses \ {200}, body : {None}]
    \cup [kind : {"http"}, status : {200},
          body : {Some([signature |-> "device",
                        ciphertext |-> AesCbcEncrypt(payload.ciphertext.key,
                                                     payload.ciphertext.iv,
                                                     text)])
                  : text \in ResponseTexts}
                 \cup {Some([signature |-> "device",
                             ciphertext |-> AesCbcEncrypt(<<"garbage">>,
                                                          <<"garbage">>,
                                                          "")])}]

\* ------------------------------------------------------------- callers
\* The SmartDeviceExceptions raised by send's guards and by login.
HandshakeMustBeComplete ==
    "SmartDeviceException: Handshake must be complete before trying to send"
LoginMustBeComplete ==
    "SmartDeviceException: Login must be complete before trying to send"
KlapDoesNotLogin ==
    "SmartDeviceException: KLAP does not perform logins"

EmptyLoc ==
    [local_seed |-> None, remote_seed |-> None, auth_hash |-> None,
     request |-> None, seq |-> None, payload |-> None, cookies |-> {},
     client_closed |-> FALSE]

Result(call, outcome, status) ==
    [call |-> call, outcome |-> outcome, status |-> status]
\* No call ended in the last step.
NoResult == Result("", "", None)

\* The call of task t ends: it returns ("ok") or raises; status is the HTTP
\* status of the response it had received, if any.
Finish(t, call, outcome, status) ==
    /\ pc' = [pc EXCEPT ![t] = "idle"]
    /\ loc' = [loc EXCEPT ![t] = EmptyLoc]
    /\ last_result' = Result(call, outcome, status)

KlapTransportInit ==
    /\ credentials \in ConfiguredCreds
    /\ kasa_setup_auth_hash = None
    /\ blank_auth_hash = None
    /\ handshake_done = FALSE
    /\ session_expire_at = None
    /\ session_cookie = None
    /\ encryption_session = None
    /\ http_client = Some({})
    /\ clients = <<0>>
    /\ device_cookie = None
    /\ now = 0
    /\ nticks = 0
    /\ pc = [t \in Tasks |-> "idle"]
    /\ loc = [t \in Tasks |-> EmptyLoc]
    /\ last_result = NoResult
    /\ wire_last = None
    /\ n_encrypt = 0
    /\ ncalls = 0

\* A connection nobody has written to, and one that is closed.
NewConn == [open |-> TRUE, pending |-> <<>>, closes |-> 0]

EmptyXLoc ==
    [query |-> 0, retry |-> 0, retry_count |-> 0, after_close |-> "",
     cause |-> None,     \* the exception of the last failed attempt
     phase |-> "", conn |-> 0, hdr |-> ""]

XResult(call, outcome, l) ==
    [call |-> call, outcome |-> outcome, cause |-> l.cause,
     phase |-> l.phase, reply_to |-> 0, query |-> l.query,
     attempts |-> l.retry + 1, retry_count |-> l.retry_count]
\* No call ended in the last step.
XNoResult == XResult("", "", [EmptyXLoc EXCEPT !.retry = -1])

TPLinkSmartHomeProtocolInit ==
    /\ reader = None
    /\ writer = None
    /\ query_lock = None
    /\ conns = <<>>
    /\ xpc = [t \in Tasks |-> "idle"]
    /\ xloc = [t \in Tasks |-> EmptyXLoc]
    /\ xresult = XNoResult
    /\ nqueries = 0
    /\ ncancels = 0

\* No KlapEncryptionSession exists outside the transport.
NoSession ==
    /\ ks = None
    /\ ks_plain = None
    /\ ks_blob = None
    /\ ks_raised = ""
    /\ ks_out = None
    /\ ks_n = 0

\* No static method has been applied to anything.
NoCrypt ==
    /\ crypt_request = <<>>
    /\ crypt_frame = None
    /\ crypt_response = None
    /\ crypt_bytes = <<>>
    /\ crypt_encoded = None
    /\ crypt_decoded = None

Init ==
    /\ KlapTransportInit
    /\ NoSession
    /\ TPLinkSmartHomeProtocolInit
    /\ NoCrypt

\* handshake() -> perform_handshake, to the await of the handshake1 POST.
perform_handshake(t) ==
    /\ pc[t] = "idle"
    /\ UNCHANGED not_klap_vars
    /\ ncalls < MaxCalls
    /\ ncalls' = ncalls + 1
    /\ handshake_done' = FALSE
    /\ session_expire_at' = None
    /\ session_cookie' = None
    /\ \E local_seed \in LocalSeeds :
           loc' = [loc EXCEPT ![t] =
                      [EmptyLoc EXCEPT !.local_seed = Some(local_seed),
                                       !.cookies = client_post_cookies(None)]]
    /\ http_client' = client_post_client
    /\ clients' = client_post_clients
    /\ pc' = [pc EXCEPT ![t] = "handshake1"]
    /\ UNCHANGED <<credentials, device_cookie,
                   kasa_setup_auth_hash,
                   blank_auth_hash, encryption_session, now, nticks,
                   wire_last, n_encrypt>>
    /\ last_result' = NoResult

\* The handshake1 POST completes with resp: the rest of perform_handshake1,
\* the lines of perform_handshake after it, and perform_handshake2 to its
\* await.
handshake1_reply(t, resp) ==
    LET jar == IF http_client = None \/ loc[t].client_closed
               THEN http_client
               ELSE Some(extract_cookies(http_client[1], resp.set_cookie))
        auth_hash == handshake1_auth_hash(loc[t].local_seed[1],
                                          resp.remote_seed,
                                          resp.server_hash[1])
    IN
    IF resp.kind = "neterr"
    THEN /\ Finish(t, "handshake", "HTTPError", None)
         /\ UNCHANGED <<credentials, device_cookie,
                   clients, kasa_setup_auth_hash, blank_auth_hash,
                        handshake_done, session_expire_at,
                        session_cookie, encryption_session, http_client,
                        now, nticks, wire_last, n_encrypt>>
    ELSE IF resp.status # 200
    THEN /\ Finish(t, "handshake", "AuthenticationException",
                   Some(resp.status))
         /\ http_client' = jar
         /\ UNCHANGED <<credentials, device_cookie,
                   clients, kasa_setup_auth_hash, blank_auth_hash,
                        handshake_done, session_expire_at,
                        session_cookie, encryption_session,
                        now, nticks, wire_last, n_encrypt>>
    ELSE
    /\ kasa_setup_auth_hash' =
           handshake1_kasa_setup_auth_hash(loc[t].local_seed[1],
                                           resp.remote_seed,
                                           resp.server_hash[1])
    /\ blank_auth_hash' =
           handshake1_blank_auth_hash(loc[t].local_seed[1],
                                      resp.remote_seed,
                                      resp.server_hash[1])
    /\ device_cookie' = cookies_get(resp.set_cookie, SESSION_COOKIE_NAME)
    /\ IF auth_hash = None
       THEN /\ Finish(t, "handshake", "AuthenticationException",
                      Some(resp.status))
            /\ http_client' = jar
            /\ UNCHANGED <<credentials, clients, handshake_done, session_expire_at,
                           session_cookie, encryption_session,
                           now, nticks, wire_last, n_encrypt>>
       ELSE IF jar = None
       THEN \* self._http_client is None: the attribute access raises
            /\ Finish(t, "handshake", "AttributeError", Some(resp.status))
            /\ UNCHANGED <<credentials, clients, handshake_done, session_expire_at,
                           session_cookie, encryption_session, http_client,
                           now, nticks, wire_last, n_encrypt>>
       ELSE /\ session_cookie' = cookies_get(jar[1], SESSION_COOKIE_NAME)
            /\ session_expire_at' = Some(session_expiry(now))
            /\ http_client' = client_post_client
            /\ pc' = [pc EXCEPT ![t] = "handshake2"]
            /\ loc' = [loc EXCEPT ![t] =
                          [EmptyLoc EXCEPT
                              !.local_seed = loc[t].local_seed,
                              !.remote_seed = Some(resp.remote_seed),
                              !.auth_hash = auth_hash,
                              !.payload = Some(handshake2_seed_auth_hash(
                                                   loc[t].local_seed[1],
                                                   resp.remote_seed,
                                                   auth_hash[1])),
                              !.cookies = client_post_cookies(
                                              session_cookie')]]
            /\ clients' = client_post_clients
            /\ last_result' = NoResult
            /\ UNCHANGED <<credentials, handshake_done, encryption_session,
                           now, nticks, wire_last, n_encrypt>>

handshake1_done(t) ==
    /\ pc[t] = "handshake1"
    /\ UNCHANGED not_klap_vars
    /\ UNCHANGED ncalls
    /\ \E resp \in Handshake1Responses(loc[t].local_seed[1]) :
           handshake1_reply(t, resp)

\* The handshake2 POST completes: the rest of perform_handshake2 and of
\* perform_handshake.
handshake2_done(t) ==
    /\ pc[t] = "handshake2"
    /\ UNCHANGED not_klap_vars
    /\ UNCHANGED ncalls
    /\ \E resp \in Handshake2Responses :
        IF resp.kind = "neterr"
        THEN /\ Finish(t, "handshake", "HTTPError", None)
             /\ UNCHANGED <<credentials, device_cookie,
                   clients, kasa_setup_auth_hash,
                   blank_auth_hash, handshake_done, session_expire_at,
                            session_cookie, encryption_session, http_client,
                            now, nticks, wire_last, n_encrypt>>
        ELSE IF resp.status # 200
        THEN /\ Finish(t, "handshake", "AuthenticationException",
                       Some(resp.status))
             /\ UNCHANGED <<credentials, device_cookie,
                   clients, kasa_setup_auth_hash,
                   blank_auth_hash, handshake_done, session_expire_at,
                            session_cookie, encryption_session, http_client,
                            now, nticks, wire_last, n_encrypt>>
        ELSE /\ encryption_session' =
                    Some(KlapEncryptionSession(loc[t].local_seed[1],
                                               loc[t].remote_seed[1],
                                               loc[t].auth_hash[1]))
             /\ handshake_done' = TRUE
             /\ Finish(t, "handshake", "ok", Some(resp.status))
             /\ wire_last' = None
             /\ n_encrypt' = 0
             /\ UNCHANGED <<credentials, device_cookie,
                   clients, kasa_setup_auth_hash,
                   blank_auth_hash, session_expire_at, session_cookie,
                            http_client, now, nticks>>

\* send, to the await of the request POST (or to the exception that ends it).
send(t) ==
    /\ pc[t] = "idle"
    /\ UNCHANGED not_klap_vars
    /\ ncalls < MaxCalls
    /\ ncalls' = ncalls + 1
    /\ \E request \in Requests :
        IF needs_handshake
        THEN /\ Finish(t, "send", HandshakeMustBeComplete, None)
             /\ UNCHANGED <<credentials, device_cookie,
                   clients, kasa_setup_auth_hash,
                   blank_auth_hash, handshake_done, session_expire_at,
                            session_cookie, encryption_session, http_client,
                            now, nticks, wire_last, n_encrypt>>
        ELSE IF needs_login
        THEN /\ Finish(t, "send", LoginMustBeComplete, None)
             /\ UNCHANGED <<credentials, device_cookie,
                   clients, kasa_setup_auth_hash,
                   blank_auth_hash, handshake_done, session_expire_at,
                            session_cookie, encryption_session, http_client,
                            now, nticks, wire_last, n_encrypt>>
        ELSE IF encryption_session = None
        THEN \* payload and seq are unbound at the client_post call
             /\ Finish(t, "send", "UnboundLocalError", None)
             /\ UNCHANGED <<credentials, device_cookie,
                   clients, kasa_setup_auth_hash,
                   blank_auth_hash, handshake_done, session_expire_at,
                            session_cookie, encryption_session, http_client,
                            now, nticks, wire_last, n_encrypt>>
        ELSE LET e == encrypt(encryption_session[1], request) IN
             /\ n_encrypt' = n_encrypt + 1
             /\ encryption_session' = Some(e.session)
             /\ IF e.raised # ""
                THEN /\ Finish(t, "send", e.raised, None)
                     /\ UNCHANGED <<http_client, clients, wire_last>>
                ELSE /\ http_client' = client_post_client
                     /\ clients' = client_post_clients
                     /\ pc' = [pc EXCEPT ![t] = "send"]
                     /\ loc' = [loc EXCEPT ![t] =
                                   [EmptyLoc EXCEPT
                                       !.request = Some(request),
                                       !.seq = e.seq,
                                       !.payload = e.payload,
                                       !.cookies = client_post_cookies(
                                                       session_cookie)]]
                     /\ wire_last' = Some([params_seq |-> e.seq[1],
                                           data |-> e.payload[1],
                                           cookies |-> client_post_cookies(
                                                           session_cookie)])
                     /\ last_result' = NoResult
             /\ UNCHANGED <<credentials, device_cookie,
                   kasa_setup_auth_hash,
                   blank_auth_hash, handshake_done, session_expire_at,
                            session_cookie, now, nticks>>

\* The request POST completes: the rest of send.
send_done(t) ==
    /\ pc[t] = "send"
    /\ UNCHANGED not_klap_vars
    /\ UNCHANGED ncalls
    /\ \E resp \in RequestResponses(loc[t].payload[1]) :
        IF resp.kind = "neterr"
        THEN /\ Finish(t, "send", "HTTPError", None)
             /\ UNCHANGED <<credentials, device_cookie,
                   clients, kasa_setup_auth_hash,
                   blank_auth_hash, handshake_done, session_expire_at,
                            session_cookie, encryption_session, http_client,
                            now, nticks, wire_last, n_encrypt>>
        ELSE IF resp.status # 200
        THEN /\ handshake_done' = send_status_handshake_done(resp.status)
             /\ Finish(t, "send", send_status_exception(resp.status),
                       Some(resp.status))
             /\ UNCHANGED <<credentials, device_cookie,
                   clients, kasa_setup_auth_hash,
                   blank_auth_hash, session_expire_at, session_cookie,
                            encryption_session, http_client, now, nticks,
                            wire_last, n_encrypt>>
        ELSE IF encryption_session = None
        THEN \* decrypted_response is unbound at the json_loads call
             /\ Finish(t, "send", "UnboundLocalError", Some(resp.status))
             /\ UNCHANGED <<credentials, device_cookie,
                   clients, kasa_setup_auth_hash,
                   blank_auth_hash, handshake_done, session_expire_at,
                            session_cookie, encryption_session, http_client,
                            now, nticks, wire_last, n_encrypt>>
        ELSE LET d == decrypt(encryption_session[1], resp.body[1]) IN
             /\ encryption_session' = Some(d.session)
             /\ Finish(t, "send",
                       IF d.raised # "" THEN d.raised
                       ELSE IF json_loads_raises(d.plain)
                            THEN "JSONDecodeError" ELSE "ok",
                       Some(resp.status))
             /\ UNCHANGED <<credentials, device_cookie,
                   clients, kasa_setup_auth_hash,
                   blank_auth_hash, handshake_done, session_expire_at,
                            session_cookie, http_client, now, nticks,
                            wire_last, n_encrypt>>

\* close: the client is dropped before the await of aclose, and nothing
\* follows that await.  A handshake1 POST in flight was sent by the dropped
\* client, whose jar will receive its cookies.
close(t) ==
    /\ pc[t] = "idle"
    /\ UNCHANGED not_klap_vars
    /\ ncalls < MaxCalls
    /\ ncalls' = ncalls + 1
    /\ http_client' = None
    /\ pc' = pc
    /\ loc' = [u \in Tasks |->
                  IF pc[u] = "handshake1"
                  THEN [loc[u] EXCEPT !.client_closed = TRUE]
                  ELSE loc[u]]
    /\ clients' = aclose_calls(http_client, clients)
    /\ last_result' = Result("close", "ok", None)
    /\ UNCHANGED <<credentials, device_cookie,
                   kasa_setup_auth_hash,
                   blank_auth_hash, handshake_done, session_expire_at,
                   session_cookie, encryption_session, now, nticks,
                   wire_last, n_encrypt>>

login(t) ==
    /\ pc[t] = "idle"
    /\ UNCHANGED not_klap_vars
    /\ ncalls < MaxCalls
    /\ ncalls' = ncalls + 1
    /\ Finish(t, "login", KlapDoesNotLogin, None)
    /\ UNCHANGED <<credentials, device_cookie,
                   clients, kasa_setup_auth_hash,
                   blank_auth_hash, handshake_done, session_expire_at,
                   session_cookie, encryption_session, http_client, now,
                   nticks, wire_last, n_encrypt>>

\* The wall clock advances between two steps of the event loop.
TimeSteps ==
    {1, SESSION_SECONDS - 1, SESSION_SECONDS}

Tick ==
    /\ nticks < MaxTicks
    /\ UNCHANGED not_klap_vars
    /\ \E d \in TimeSteps : now' = now + d
    /\ nticks' = nticks + 1
    /\ UNCHANGED ncalls
    /\ UNCHANGED <<credentials, device_cookie,
                   clients, kasa_setup_auth_hash,
                   blank_auth_hash, handshake_done, session_expire_at,
                   session_cookie, encryption_session, http_client, pc, loc,
                   wire_last, n_encrypt>>
    /\ last_result' = NoResult

Next ==
    \/ \E t \in Tasks : perform_handshake(t)
    \/ \E t \in Tasks : handshake1_done(t)
    \/ \E t \in Tasks : handshake2_done(t)
    \/ \E t \in Tasks : send(t)
    \/ \E t \in Tasks : send_done(t)
    \/ \E t \in Tasks : close(t)
    \/ \E t \in Tasks : login(t)
    \/ Tick

Spec == Init /\ [][Next]_vars

\* ------------------------------------ a KlapEncryptionSession on its own
\* The inputs of the constructor and of encrypt.
SessionRemoteSeeds == {1, 2, 3}
SessionUserHashes ==
    {generate_auth_hash(c) : c \in {UserCreds, KasaSetupCreds, BlankCreds}}
Plaintexts == Requests \cup {"", "{}"}

SessionInit ==
    /\ KlapTransportInit
    /\ credentials = UserCreds
    /\ TPLinkSmartHomeProtocolInit
    /\ \E local_seed \in LocalSeeds, remote_seed \in SessionRemoteSeeds,
          user_hash \in SessionUserHashes :
           ks = Some(KlapEncryptionSession(local_seed, remote_seed,
                                           user_hash))
    /\ ks_plain = None
    /\ ks_blob = None
    /\ ks_raised = ""
    /\ ks_out = None
    /\ ks_n = 0
    /\ NoCrypt

\* session.encrypt(msg): the call returns (payload, seq) or raises.
session_encrypt ==
    /\ ks # None
    /\ ks_n < MaxEncrypts
    /\ \E msg \in Plaintexts :
           LET e == encrypt(ks[1], msg) IN
           /\ ks' = Some(e.session)
           /\ ks_plain' = Some(msg)
           /\ ks_blob' = e.payload
           /\ ks_raised' = e.raised
    /\ ks_out' = None
    /\ ks_n' = ks_n + 1
    /\ UNCHANGED <<klap_vars, xor_vars, crypt_vars>>

\* session.decrypt(blob) of the blob the last encrypt call returned.
session_decrypt ==
    /\ ks # None
    /\ ks_blob # None
    /\ LET d == decrypt(ks[1], ks_blob[1]) IN
           /\ ks' = Some(d.session)
           /\ ks_out' = Some([raised |-> d.raised, plain |-> d.plain])
    /\ UNCHANGED <<ks_plain, ks_blob, ks_raised, ks_n>>
    /\ UNCHANGED <<klap_vars, xor_vars, crypt_vars>>

SessionNext ==
    \/ session_encrypt
    \/ session_decrypt

SessionSpec == SessionInit /\ [][SessionNext]_vars

\* ------------------------------------------------ TPLinkSmartHomeProtocol
NO_RETRY_ERRORS == {"EHOSTDOWN", "EHOSTUNREACH", "ECONNREFUSED"}

Err(type, errno) == [type |-> type, errno |-> errno]

\* What the await of open_connection under the timeout can raise.
ConnectErrors ==
    {Err("ConnectionRefusedError", "ECONNREFUSED"),
     Err("OSError", "EHOSTDOWN"),
     Err("OSError", "EHOSTUNREACH"),
     Err("OSError", "ENETUNREACH"),
     Err("TimeoutError", "")}

\* What drain and readexactly under the timeout can raise.
ExchangeErrors ==
    {Err("OSError", "EHOSTUNREACH"),
     Err("IncompleteReadError", ""),
     Err("TimeoutError", "")}

AttributeError == Err("AttributeError", "")
JSONDecodeError == Err("JSONDecodeError", "")
Unreachable == Err("Query reached somehow to unreachable", "")

\* OSError and the subclasses of it that appear here.  (TimeoutError is
\* handled alike by "except OSError" and by "except Exception".)
is_OSError(err) == err.type \in {"OSError", "ConnectionRefusedError"}

\* Mutant: the last allowed attempt is followed by one more turn of the loop.
giving_up_late(retry, retry_count) == retry > retry_count

\* "retry >= retry_count" in the except-handlers of _query.
giving_up(retry, retry_count) == retry >= retry_count

\* Mutant: only ConnectionRefusedError ends the call at once.
connect_raises_errno_blind(err, retry, retry_count) ==
    IF err.type = "ConnectionRefusedError"
    THEN TRUE
    ELSE giving_up(retry, retry_count)

\* Whether the except-handlers of the connect raise (or continue the loop).
connect_raises(err, retry, retry_count) ==
    IF err.type = "ConnectionRefusedError"
    THEN TRUE
    ELSE IF is_OSError(err)
    THEN err.errno \in NO_RETRY_ERRORS \/ giving_up(retry, retry_count)
    ELSE giving_up(retry, retry_count)

\* Whether the except-handler of the exchange raises.
exchange_raises(err, retry, retry_count) == giving_up(retry, retry_count)

\* _query raises SmartDeviceException, and query releases the lock.
query_raise(t, l) ==
    /\ xpc' = [xpc EXCEPT ![t] = "idle"]
    /\ xloc' = [xloc EXCEPT ![t] = EmptyXLoc]
    /\ xresult' = XResult("query", "SmartDeviceException", l)
    /\ query_lock' = None
    /\ UNCHANGED <<reader, writer, conns>>

\* close() when there is a writer, to its await of wait_closed.
close_writer(t, l) ==
    /\ reader' = None
    /\ writer' = None
    /\ conns' = [conns EXCEPT ![writer[1]] =
                    [open |-> FALSE, pending |-> <<>>, closes |-> @.closes + 1]]
    /\ xpc' = [xpc EXCEPT ![t] = "wait_closed"]
    /\ xloc' = [xloc EXCEPT ![t] = l]
    /\ xresult' = XNoResult

\* One turn of the loop of _query, to its first await: the connect if there
\* is no writer, else the drain after the frame was written.  After the
\* loop: close and raise.
query_attempt(t, l) ==
    IF l.retry > l.retry_count
    THEN LET l1 == [l EXCEPT !.after_close = "raise",
                             !.cause = Some([type |-> Unreachable.type,
                                             errno |-> "",
                                             phase |-> "fall-through"]),
                             !.phase = "fall-through"]
         IN IF writer # None
            THEN close_writer(t, l1) /\ query_lock' = Some(t)
            ELSE query_raise(t, l1)
    ELSE IF writer # None
    THEN /\ conns' = [conns EXCEPT ![writer[1]].pending =
                         Append(@, [query |-> l.query, partial |-> FALSE])]
         /\ xpc' = [xpc EXCEPT ![t] = "drain"]
         /\ xloc' = [xloc EXCEPT ![t] = [l EXCEPT !.phase = "exchange"]]
         /\ xresult' = XNoResult
         /\ query_lock' = Some(t)
         /\ UNCHANGED <<reader, writer>>
    ELSE /\ reader' = None
         /\ writer' = None
         /\ xpc' = [xpc EXCEPT ![t] = "connect"]
         /\ xloc' = [xloc EXCEPT ![t] = [l EXCEPT !.phase = "connect"]]
         /\ xresult' = XNoResult
         /\ query_lock' = Some(t)
         /\ UNCHANGED conns

\* Mutant: the except-handlers do not close the connection.
query_except_no_close(t, l, raises, err) ==
    LET l1 == [l EXCEPT !.after_close = IF raises THEN "raise" ELSE "retry",
                        !.cause = Some([type |-> err.type,
                                        errno |-> err.errno,
                                        phase |-> l.phase])]
    IN IF raises
       THEN query_raise(t, l1)
       ELSE query_attempt(t, [l1 EXCEPT !.retry = @ + 1,
                                        !.after_close = ""])

\* An except-handler of _query: await self.close(), then raise or go on
\* with the next turn of the loop.
query_except(t, l, raises, err) ==
    LET l1 == [l EXCEPT !.after_close = IF raises THEN "raise" ELSE "retry",
                        !.cause = Some([type |-> err.type,
                                        errno |-> err.errno,
                                        phase |-> l.phase])]
    IN IF writer # None
       THEN close_writer(t, l1) /\ query_lock' = Some(t)
       ELSE IF raises
       THEN query_raise(t, l1)
       ELSE query_attempt(t, [l1 EXCEPT !.retry = @ + 1,
                                        !.after_close = ""])

\* query, to its first await.
xor_query(t) ==
    /\ xpc[t] = "idle"
    /\ nqueries < MaxQueries
    /\ nqueries' = nqueries + 1
    /\ \E retry_count \in 0..MaxRetryCount :
           LET l == [EmptyXLoc EXCEPT !.query = nqueries + 1,
                                      !.retry_count = retry_count]
           IN IF query_lock = None
              THEN query_attempt(t, l)
              ELSE /\ xpc' = [xpc EXCEPT ![t] = "lock"]
                   /\ xloc' = [xloc EXCEPT ![t] = l]
                   /\ xresult' = XNoResult
                   /\ UNCHANGED <<reader, writer, conns, query_lock>>
    /\ UNCHANGED ncancels
    /\ UNCHANGED <<klap_vars, session_vars, crypt_vars>>

\* A caller waiting for the query_lock gets it.
query_lock_acquired(t) ==
    /\ xpc[t] = "lock"
    /\ query_lock = None
    /\ query_attempt(t, xloc[t])
    /\ UNCHANGED <<nqueries, ncancels>>
    /\ UNCHANGED <<klap_vars, session_vars, crypt_vars>>

\* The await of open_connection ends: the rest of _connect and, on success,
\* _execute_query to the await of drain.
connect_done(t) ==
    /\ xpc[t] = "connect"
    /\ \/ /\ reader' = Some(Len(conns) + 1)
          /\ writer' = Some(Len(conns) + 1)
          /\ conns' = Append(conns,
                             [NewConn EXCEPT !.pending =
                                 <<[query |-> xloc[t].query,
                                    partial |-> FALSE]>>])
          /\ xpc' = [xpc EXCEPT ![t] = "drain"]
          /\ xloc' = [xloc EXCEPT ![t].phase = "exchange"]
          /\ xresult' = XNoResult
          /\ UNCHANGED query_lock
       \/ \E err \in ConnectErrors :
              query_except(t, xloc[t],
                           connect_raises(err, xloc[t].retry,
                                          xloc[t].retry_count),
                           err)
    /\ UNCHANGED <<nqueries, ncancels>>
    /\ UNCHANGED <<klap_vars, session_vars, crypt_vars>>

\* The await of drain ends; on success self.reader.readexactly(4) is called.
drain_done(t) ==
    /\ xpc[t] = "drain"
    /\ \/ IF reader = None
          THEN query_except(t, xloc[t],
                            exchange_raises(AttributeError, xloc[t].retry,
                                            xloc[t].retry_count),
                            AttributeError)
          ELSE /\ xpc' = [xpc EXCEPT ![t] = "read_len"]
               /\ xloc' = [xloc EXCEPT ![t].conn = reader[1]]
               /\ xresult' = XNoResult
               /\ UNCHANGED <<reader, writer, conns, query_lock>>
       \/ \E err \in ExchangeErrors :
              query_except(t, xloc[t],
                           exchange_raises(err, xloc[t].retry,
                                           xloc[t].retry_count),
                           err)
    /\ UNCHANGED <<nqueries, ncancels>>
    /\ UNCHANGED <<klap_vars, session_vars, crypt_vars>>

\* The await of readexactly(4) ends.  The 4 bytes are the head of the
\* oldest frame the device has still to deliver on this connection, or, if
\* the head of that frame was read before, bytes of its payload.
read_len_done(t) ==
    /\ xpc[t] = "read_len"
    /\ \/ LET c == xloc[t].conn IN
          /\ conns[c].open
          /\ conns[c].pending # <<>>
          /\ conns' = [conns EXCEPT ![c].pending[1].partial = TRUE]
          /\ xpc' = [xpc EXCEPT ![t] = "read_payload"]
          /\ xloc' = [xloc EXCEPT ![t].hdr =
                          IF conns[c].pending[1].partial
                          THEN "garbage" ELSE "ok"]
          /\ xresult' = XNoResult
          /\ UNCHANGED <<reader, writer, query_lock>>
       \/ \E err \in ExchangeErrors :
              query_except(t, xloc[t],
                           exchange_raises(err, xloc[t].retry,
                                           xloc[t].retry_count),
                           err)
    /\ UNCHANGED <<nqueries, ncancels>>
    /\ UNCHANGED <<klap_vars, session_vars, crypt_vars>>

\* The await of readexactly(length) ends: decrypt, json_loads and return.
\* A payload read after a length that was no length is no JSON text.
read_payload_done(t) ==
    /\ xpc[t] = "read_payload"
    /\ \/ LET c == xloc[t].conn IN
          /\ conns[c].open
          /\ \E text \in ResponseTexts :
                IF json_loads_raises(text) \/ xloc[t].hdr # "ok"
                THEN query_except(t, xloc[t],
                                  exchange_raises(JSONDecodeError,
                                                  xloc[t].retry,
                                                  xloc[t].retry_count),
                                  JSONDecodeError)
                ELSE /\ conns' = [conns EXCEPT ![c].pending = Tail(@)]
                     /\ xpc' = [xpc EXCEPT ![t] = "idle"]
                     /\ xloc' = [xloc EXCEPT ![t] = EmptyXLoc]
                     /\ xresult' =
                            [XResult("query", "ok", xloc[t]) EXCEPT
                                !.reply_to = conns[c].pending[1].query]
                     /\ query_lock' = None
                     /\ UNCHANGED <<reader, writer>>
       \/ \E err \in ExchangeErrors :
              query_except(t, xloc[t],
                           exchange_raises(err, xloc[t].retry,
                                           xloc[t].retry_count),
                           err)
    /\ UNCHANGED <<nqueries, ncancels>>
    /\ UNCHANGED <<klap_vars, session_vars, crypt_vars>>

\* The await of wait_closed ends (an exception of it is suppressed): close
\* returns, to the except-handler of _query or to the caller of close.
wait_closed_done(t) ==
    /\ xpc[t] = "wait_closed"
    /\ CASE xloc[t].after_close = "raise" -> query_raise(t, xloc[t])
         [] xloc[t].after_close = "retry" ->
                query_attempt(t, [xloc[t] EXCEPT !.retry = @ + 1,
                                                 !.after_close = ""])
         [] OTHER ->
                /\ xpc' = [xpc EXCEPT ![t] = "idle"]
                /\ xloc' = [xloc EXCEPT ![t] = EmptyXLoc]
                /\ xresult' = XResult("close", "ok", EmptyXLoc)
                /\ UNCHANGED <<reader, writer, conns, query_lock>>
    /\ UNCHANGED <<nqueries, ncancels>>
    /\ UNCHANGED <<klap_vars, session_vars, crypt_vars>>

\* close() called on the protocol object, to its await or to its end.
xor_close(t) ==
    /\ xpc[t] = "idle"
    /\ nqueries < MaxQueries
    /\ nqueries' = nqueries + 1
    /\ IF writer # None
       THEN close_writer(t, [EmptyXLoc EXCEPT !.after_close = "return"])
       ELSE /\ reader' = None
            /\ writer' = None
            /\ xresult' = XResult("close", "ok", EmptyXLoc)
            /\ UNCHANGED <<conns, xpc, xloc>>
    /\ UNCHANGED <<query_lock, ncancels>>
    /\ UNCHANGED <<klap_vars, session_vars, crypt_vars>>

\* The caller suspended at an await is cancelled: CancelledError, which no
\* "except Exception" catches, leaves the coroutine; a lock that is held
\* is released by the "async with" of query.
xor_cancel(t) ==
    /\ xpc[t] # "idle"
    /\ ncancels < MaxCancels
    /\ ncancels' = ncancels + 1
    /\ xpc' = [xpc EXCEPT ![t] = "idle"]
    /\ xloc' = [xloc EXCEPT ![t] = EmptyXLoc]
    /\ xresult' = XResult(IF xloc[t].after_close = "return"
                          THEN "close" ELSE "query",
                          "CancelledError", xloc[t])
    /\ query_lock' = IF query_lock = Some(t) THEN None ELSE query_lock
    /\ UNCHANGED <<reader, writer, conns, nqueries>>
    /\ UNCHANGED <<klap_vars, session_vars, crypt_vars>>

XorNext ==
    \/ \E t \in Tasks : xor_query(t)
    \/ \E t \in Tasks : query_lock_acquired(t)
    \/ \E t \in Tasks : connect_done(t)
    \/ \E t \in Tasks : drain_done(t)
    \/ \E t \in Tasks : read_len_done(t)
    \/ \E t \in Tasks : read_payload_done(t)
    \/ \E t \in Tasks : wait_closed_done(t)
    \/ \E t \in Tasks : xor_close(t)
    \/ \E t \in Tasks : xor_cancel(t)

XorInit ==
    /\ KlapTransportInit
    /\ credentials = UserCreds
    /\ NoSession
    /\ TPLinkSmartHomeProtocolInit
    /\ NoCrypt

XorSpec == XorInit /\ [][XorNext]_vars

\* Every await of a query ends: the connect and the exchange run under the
\* timeout, the transport that close() closed reports its end, and the
\* asyncio.Lock wakes its waiters in turn.
XorFairness ==
    \A t \in Tasks :
        /\ SF_vars(query_lock_acquired(t))
        /\ WF_vars(connect_done(t))
        /\ WF_vars(drain_done(t))
        /\ WF_vars(read_len_done(t))
        /\ WF_vars(read_payload_done(t))
        /\ WF_vars(wait_closed_done(t))

XorFairSpec == XorSpec /\ XorFairness

\* ------------------------------- the XOR cipher of TPLinkSmartHomeProtocol
\* Python's a ^ b on two non-negative integers.
RECURSIVE xor(_, _)
xor(a, b) ==
    IF a = 0 THEN b
    ELSE IF b = 0 THEN a
    ELSE (((a % 2) + (b % 2)) % 2) + 2 * xor(a \div 2, b \div 2)

UnicodeEncodeError == "UnicodeEncodeError"
UnicodeDecodeError == "UnicodeDecodeError"

\* The UTF-8 bytes of one code point; a surrogate has none.
utf8_bytes(cp) ==
    IF cp < 128 THEN <<cp>>
    ELSE IF cp < 2048 THEN <<192 + (cp \div 64), 128 + (cp % 64)>>
    ELSE IF cp < 65536
    THEN <<224 + (cp \div 4096), 128 + ((cp \div 64) % 64), 128 + (cp % 64)>>
    ELSE <<240 + (cp \div 262144), 128 + ((cp \div 4096) % 64),
           128 + ((cp \div 64) % 64), 128 + (cp % 64)>>

is_surrogate(cp) == cp >= 55296 /\ cp <= 57343

\* str.encode(): the UTF-8 bytes of the text, or the exception it raises.
RECURSIVE str_encode(_)
str_encode(text) ==
    IF text = <<>> THEN [raised |-> "", bytes |-> <<>>]
    ELSE IF is_surrogate(Head(text))
    THEN [raised |-> UnicodeEncodeError, bytes |-> <<>>]
    ELSE LET rest == str_encode(Tail(text)) IN
         IF rest.raised # "" THEN rest
         ELSE [raised |-> "",
               bytes |-> utf8_bytes(Head(text)) \o rest.bytes]

is_continuation(b) == b >= 128 /\ b <= 191

\* bytes.decode(): the text of well-formed UTF-8 (no overlong form, no
\* surrogate, nothing above U+10FFFF), or the exception it raises.
RECURSIVE bytes_decode(_)
bytes_decode(bytes) ==
    IF bytes = <<>> THEN [raised |-> "", text |-> <<>>]
    ELSE
    LET b0 == bytes[1]
        n == IF b0 < 128 THEN 1
             ELSE IF b0 >= 194 /\ b0 <= 223 THEN 2
             ELSE IF b0 >= 224 /\ b0 <= 239 THEN 3
             ELSE IF b0 >= 240 /\ b0 <= 244 THEN 4
             ELSE 0
        well_formed ==
            /\ n > 0
            /\ Len(bytes) >= n
            /\ \A i \in 2..n : is_continuation(bytes[i])
        cp == IF n = 1 THEN b0
              ELSE IF n = 2 THEN (b0 - 192) * 64 + (bytes[2] - 128)
              ELSE IF n = 3
              THEN (b0 - 224) * 4096 + (bytes[2] - 128) * 64
                   + (bytes[3] - 128)
              ELSE (b0 - 240) * 262144 + (bytes[2] - 128) * 4096
                   + (bytes[3] - 128) * 64 + (bytes[4] - 128)
        failed == [raised |-> UnicodeDecodeError, text |-> <<>>]
    IN
    IF ~well_formed THEN failed
    ELSE IF n = 3 /\ (cp < 2048 \/ is_surrogate(cp)) THEN failed
    ELSE IF n = 4 /\ (cp < 65536 \/ cp > 1114111) THEN failed
    ELSE LET rest == bytes_decode(SubSeq(bytes, n + 1, Len(bytes))) IN
         IF rest.raised # "" THEN rest
         ELSE [raised |-> "", text |-> <<cp>> \o rest.text]

\* Mutant: the length written least significant byte first.
struct_pack_I_little(n) ==
    <<n % 256, (n \div 256) % 256, (n \div 65536) % 256,
      (n \div 16777216) % 256>>

\* struct.pack(">I", n), for the n < 2^32 it accepts.
struct_pack_I(n) ==
    <<(n \div 16777216) % 256, (n \div 65536) % 256, (n \div 256) % 256,
      n % 256>>

\* Mutant: every byte is combined with the initial key.
RECURSIVE xor_payload_fixed_key(_, _)
xor_payload_fixed_key(key, unencrypted) ==
    IF unencrypted = <<>> THEN <<>>
    ELSE <<xor(key, Head(unencrypted))>>
         \o xor_payload_fixed_key(key, Tail(unencrypted))

\* The loop of _xor_payload, entered with key: what it yields.
RECURSIVE xor_payload_loop(_, _)
xor_payload_loop(key, unencrypted) ==
    IF unencrypted = <<>> THEN <<>>
    ELSE LET key1 == xor(key, Head(unencrypted)) IN
         <<key1>> \o xor_payload_loop(key1, Tail(unencrypted))

\* bytes(_xor_payload(unencrypted))
xor_payload(unencrypted) ==
    xor_payload_loop(INITIALIZATION_VECTOR, unencrypted)

\* The loop of _xor_encrypted_payload, entered with key: what it yields.
RECURSIVE xor_encrypted_payload_loop(_, _)
xor_encrypted_payload_loop(key, ciphertext) ==
    IF ciphertext = <<>> THEN <<>>
    ELSE <<xor(key, Head(ciphertext))>>
         \o xor_encrypted_payload_loop(Head(ciphertext), Tail(ciphertext))

\* bytes(_xor_encrypted_payload(ciphertext))
xor_encrypted_payload(ciphertext) ==
    xor_encrypted_payload_loop(INITIALIZATION_VECTOR, ciphertext)

\* Mutant: the length of the frame counts characters.
xor_encrypt_char_length(request) ==
    LET plain == str_encode(request) IN
    IF plain.raised # "" THEN [raised |-> plain.raised, frame |-> <<>>]
    ELSE [raised |-> "",
          frame |-> struct_pack_I(Len(request)) \o xor_payload(plain.bytes)]

\* TPLinkSmartHomeProtocol.encrypt(request): the frame, or the exception.
xor_encrypt(request) ==
    LET plain == str_encode(request) IN
    IF plain.raised # "" THEN [raised |-> plain.raised, frame |-> <<>>]
    ELSE [raised |-> "",
          frame |-> struct_pack_I(Len(plain.bytes))
                    \o xor_payload(plain.bytes)]

\* TPLinkSmartHomeProtocol.decrypt(ciphertext): the text, or the exception.
xor_decrypt(ciphertext) ==
    bytes_decode(xor_encrypted_payload(ciphertext))

\* Sequences over S of length at most n.
SeqsUpTo(S, n) == UNION {[1..k -> S] : k \in 0..n}

\* Code points at the edges of the one-, two-, three- and four-byte forms
\* of UTF-8.
CodePoints == {49, 97, 127, 128, 233, 2047, 2048, 8364, 65535, 65536,
               1114111}
\* The text {"a":1}
GoldenRequest == <<123, 34, 97, 34, 58, 49, 125>>
CryptRequests == SeqsUpTo(CodePoints, MaxTextLen) \cup {GoldenRequest}

SampleBytes == {0, 1, 123, 128, 171, 255}
CryptBytes == SeqsUpTo(SampleBytes, MaxBytesLen)

CryptInit ==
    /\ KlapTransportInit
    /\ credentials = UserCreds
    /\ NoSession
    /\ TPLinkSmartHomeProtocolInit
    /\ \/ crypt_request \in CryptRequests /\ crypt_bytes = <<>>
       \/ crypt_request = <<>> /\ crypt_bytes \in CryptBytes
    /\ crypt_frame = None
    /\ crypt_response = None
    /\ crypt_encoded = None
    /\ crypt_decoded = None

\* encrypt(crypt_request)
crypt_encrypt ==
    /\ crypt_frame = None
    /\ crypt_frame' = Some(xor_encrypt(crypt_request))
    /\ UNCHANGED <<crypt_request, crypt_response, crypt_bytes,
                   crypt_encoded, crypt_decoded>>
    /\ UNCHANGED <<klap_vars, session_vars, xor_vars>>

\* decrypt(frame[4:]) of the frame that encrypt returned
crypt_decrypt ==
    /\ crypt_frame # None
    /\ crypt_frame[1].raised = ""
    /\ crypt_response = None
    /\ crypt_response' =
           Some(xor_decrypt(SubSeq(crypt_frame[1].frame, 5,
                                   Len(crypt_frame[1].frame))))
    /\ UNCHANGED <<crypt_request, crypt_frame, crypt_bytes, crypt_encoded,
                   crypt_decoded>>
    /\ UNCHANGED <<klap_vars, session_vars, xor_vars>>

\* bytes(_xor_payload(crypt_bytes))
crypt_xor_payload ==
    /\ crypt_encoded = None
    /\ crypt_encoded' = Some(xor_payload(crypt_bytes))
    /\ UNCHANGED <<crypt_request, crypt_frame, crypt_response, crypt_bytes,
                   crypt_decoded>>
    /\ UNCHANGED <<klap_vars, session_vars, xor_vars>>

\* bytes(_xor_encrypted_payload(crypt_bytes))
crypt_xor_encrypted_payload ==
    /\ crypt_decoded = None
    /\ crypt_decoded' = Some(xor_encrypted_payload(crypt_bytes))
    /\ UNCHANGED <<crypt_request, crypt_frame, crypt_response, crypt_bytes,
                   crypt_encoded>>
    /\ UNCHANGED <<klap_vars, session_vars, xor_vars>>

CryptNext ==
    \/ crypt_encrypt
    \/ crypt_decrypt
    \/ crypt_xor_payload
    \/ crypt_xor_encrypted_payload

CryptSpec == CryptInit /\ [][CryptNext]_vars

\* ------------------------------------------------- the two transports
\* A program holds one transport or the other: from the constructed state
\* either the KlapTransport is used or the TPLinkSmartHomeProtocol is.
KlapTransportInUse == nqueries = 0
TPLinkSmartHomeProtocolInUse == ncalls = 0 /\ nticks = 0

TransportsNext ==
    \/ \E t \in Tasks : KlapTransportInUse /\ perform_handshake(t)
    \/ \E t \in Tasks : KlapTransportInUse /\ handshake1_done(t)
    \/ \E t \in Tasks : KlapTransportInUse /\ handshake2_done(t)
    \/ \E t \in Tasks : KlapTransportInUse /\ send(t)
    \/ \E t \in Tasks : KlapTransportInUse /\ send_done(t)
    \/ \E t \in Tasks : KlapTransportInUse /\ close(t)
    \/ \E t \in Tasks : KlapTransportInUse /\ login(t)
    \/ KlapTransportInUse /\ Tick
    \/ \E t \in Tasks : TPLinkSmartHomeProtocolInUse /\ xor_query(t)
    \/ \E t \in Tasks : TPLinkSmartHomeProtocolInUse /\ query_lock_acquired(t)
    \/ \E t \in Tasks : TPLinkSmartHomeProtocolInUse /\ connect_done(t)
    \/ \E t \in Tasks : TPLinkSmartHomeProtocolInUse /\ drain_done(t)
    \/ \E t \in Tasks : TPLinkSmartHomeProtocolInUse /\ read_len_done(t)
    \/ \E t \in Tasks : TPLinkSmartHomeProtocolInUse /\ read_payload_done(t)
    \/ \E t \in Tasks : TPLinkSmartHomeProtocolInUse /\ wait_closed_done(t)
    \/ \E t \in Tasks : TPLinkSmartHomeProtocolInUse /\ xor_close(t)
    \/ \E t \in Tasks : TPLinkSmartHomeProtocolInUse /\ xor_cancel(t)

TransportsSpec == Init /\ [][TransportsNext]_vars

\* =================================================================== claims

\* The initial seq of the current session, derived again from its seeds.
InitialSeq ==
    iv_derive(encryption_session[1].local_seed,
              encryption_session[1].remote_seed,
              encryption_session[1].user_hash).seq

\* The expiry time is unset or has been reached.
ExpiryPassed ==
    \/ session_expire_at = None
    \/ session_expire_at[1] <= now

\* C1: in every reachable state needs_handshake is true if and only if
\* handshake_done is false or the expiry time is unset or has been reached;
\* it is false exactly when handshake_done is set and the current time is
\* before session_expire_at.
C1_NeedsHandshakeIff ==
    /\ needs_handshake <=> (~handshake_done \/ ExpiryPassed)
    /\ ~needs_handshake <=>
           /\ handshake_done
           /\ session_expire_at # None
           /\ now < session_expire_at[1]

\* C1 witness: a completed handshake whose session expires at this very
\* second, so that needs_handshake is true because of the expiry alone.
C1_Witness ==
    /\ handshake_done
    /\ session_expire_at = Some(now)
    /\ needs_handshake

\* C2: a send called while a handshake is needed raises the
\* SmartDeviceException of the guard and changes nothing: the session (and
\* with it seq) is untouched, no POST is issued and the caller is idle again.
C2_SendGuard ==
    [][\A t \in Tasks :
          (send(t) /\ (~handshake_done \/ ExpiryPassed)) =>
              /\ last_result' = Result("send", HandshakeMustBeComplete, None)
              /\ pc'[t] = "idle"
              /\ UNCHANGED <<session_state, http_client, wire_last,
                             n_encrypt>>]_vars

\* C2 witness: a send has just failed the guard although handshake_done is
\* set, because the session has expired.
C2_Witness ==
    /\ last_result = Result("send", HandshakeMustBeComplete, None)
    /\ handshake_done
    /\ session_expire_at # None
    /\ session_expire_at[1] <= now

\* C3: a send whose POST receives 403 raises AuthenticationException and
\* clears handshake_done, so that a handshake is needed; and handshake_done
\* is set again only by a handshake that completes with a 200 to handshake2.
C3_403ForcesHandshake ==
    [][/\ \A t \in Tasks :
              (/\ pc[t] = "send"
               /\ pc'[t] = "idle"
               /\ last_result'.status = Some(403)) =>
                  /\ last_result' = Result("send", "AuthenticationException",
                                           Some(403))
                  /\ ~handshake_done'
                  /\ needs_handshake'
       /\ (~handshake_done /\ handshake_done') =>
              \E t \in Tasks :
                  /\ pc[t] = "handshake2"
                  /\ pc'[t] = "idle"
                  /\ last_result' = Result("handshake", "ok", Some(200))
      ]_vars

\* C3 witness: a send on a session that had not expired has just ended with
\* a 403, and a handshake is needed.
C3_Witness ==
    /\ last_result = Result("send", "AuthenticationException", Some(403))
    /\ ~handshake_done
    /\ session_expire_at # None
    /\ now < session_expire_at[1]
    /\ needs_handshake

C5_SendsDoNotInterleave ==
    \A t \in Tasks :
        pc[t] = "send" =>
            /\ encryption_session # None
            /\ encryption_session[1].seq = loc[t].seq[1]

\* C6 as stated: at most one handshake is in progress, and no send is
\* between its encrypt and its decrypt while a handshake is in progress.
C6_HandshakeExclusive ==
    LET InHandshake == {t \in Tasks : pc[t] \in {"handshake1", "handshake2"}}
        InSend == {t \in Tasks : pc[t] = "send"}
    IN /\ Cardinality(InHandshake) <= 1
       /\ InHandshake = {} \/ InSend = {}

\* C7: the seq parameter of a request POST is the seq in the IV suffix and
\* in the signature input of its payload, and it is one more than the seq of
\* the previous request POST of the same session, however that one ended.
C7_WireSeq ==
    [][\A t \in Tasks :
          (pc[t] = "idle" /\ pc'[t] = "send") =>
              LET post == wire_last'[1] IN
              /\ post.params_seq = loc'[t].seq[1]
              /\ from_bytes_4_signed(post.data.ciphertext.iv[2])
                     = post.params_seq
              /\ from_bytes_4_signed(post.data.signature[2][2])
                     = post.params_seq
              /\ wire_last # None =>
                     post.params_seq = int_add(wire_last[1].params_seq, 1)
      ]_vars

\* C7 witness: the second request POST of a session whose initial seq is -1
\* is in flight with seq 1, after the first one (seq 0) has ended.
C7_Witness ==
    /\ n_encrypt = 2
    /\ wire_last # None
    /\ wire_last[1].params_seq = PyInt(0, 1)
    /\ Cardinality({t \in Tasks : pc[t] = "send"}) = 1

\* C8 as stated: after the n-th encrypt of a session (n >= 1) seq is
\* s0 + n and that is the seq the call returned (and send posted).
C8_NthEncryptReturns ==
    (encryption_session # None /\ n_encrypt >= 1) =>
        /\ encryption_session[1].seq = int_add(InitialSeq, n_encrypt)
        /\ wire_last # None
        /\ wire_last[1].params_seq = int_add(InitialSeq, n_encrypt)

\* C9 as stated: seq is always within [-2^31, 2^31 - 1] and encrypt never
\* fails because of the increment.
C9_SeqIs32Bit ==
    /\ encryption_session # None =>
           /\ -(2^15) <= encryption_session[1].seq.hi
           /\ encryption_session[1].seq.hi <= 2^15 - 1
    /\ last_result.outcome # "OverflowError"

\* C10: decrypt leaves every field of the session unchanged, and encrypt
\* changes no field but seq; key, iv and sig change at no step of a send.
C10_SessionFrame ==
    [][\A t \in Tasks :
          /\ (pc[t] = "send" /\ pc'[t] = "idle") =>
                 encryption_session' = encryption_session
          /\ (pc[t] = "idle" /\ n_encrypt' = n_encrypt + 1) =>
                 /\ encryption_session' # None
                 /\ encryption_session'[1] =
                        [encryption_session[1] EXCEPT
                            !.seq = encryption_session'[1].seq]
                 /\ encryption_session'[1].seq # encryption_session[1].seq
      ]_vars

\* C10 witness: a send has just decrypted its response and returned, after
\* which the session still has the key, iv and sig derived from its seeds.
C10_Witness ==
    /\ last_result = Result("send", "ok", Some(200))
    /\ encryption_session # None
    /\ encryption_session[1].key =
           key_derive(encryption_session[1].local_seed,
                      encryption_session[1].remote_seed,
                      encryption_session[1].user_hash)
    /\ n_encrypt >= 1

LadderCandidates ==
    <<generate_auth_hash(credentials), generate_auth_hash(KasaSetupCreds)>>
    \o (IF credentials # BlankCreds
        THEN <<generate_auth_hash(BlankCreds)>> ELSE <<>>)

\* The positions of the candidates whose H1 equals the server hash.
LadderMatches(local_seed, remote_seed, server_hash) ==
    {i \in DOMAIN LadderCandidates :
        handshake1_seed_auth_hash(local_seed, remote_seed,
                                  LadderCandidates[i]) = server_hash}

\* C12: when handshake1 is answered with 200, the candidates configured,
\* kasa-setup, blank (blank only if the configured credentials are not
\* blank) are compared in this order and the first whose H1 equals the
\* server hash wins: the hashes of the candidates after it are not even
\* generated, a handshake2 POST carries H2 of the winner and the session is
\* built from the winner; with no match the handshake raises
\* AuthenticationException and no handshake2 is posted.
C12_Ladder ==
    [][\A t \in Tasks :
          /\ pc[t] = "handshake1" =>
                \A resp \in Handshake1Responses(loc[t].local_seed[1]) :
                   (/\ resp.kind = "http"
                    /\ resp.status = 200
                    /\ handshake1_reply(t, resp)) =>
                       LET m == LadderMatches(loc[t].local_seed[1],
                                              resp.remote_seed,
                                              resp.server_hash[1])
                           first == CHOOSE i \in m : \A j \in m : i <= j
                       IN
                       IF m = {}
                       THEN /\ last_result' =
                                   Result("handshake",
                                          "AuthenticationException",
                                          Some(200))
                            /\ pc'[t] = "idle"
                       ELSE /\ last_result'.outcome
                                   # "AuthenticationException"
                            /\ pc'[t] = "handshake2" =>
                                   /\ loc'[t].auth_hash =
                                          Some(LadderCandidates[first])
                                   /\ loc'[t].payload =
                                          Some(handshake2_seed_auth_hash(
                                                   loc[t].local_seed[1],
                                                   resp.remote_seed,
                                                   LadderCandidates[first]))
                            /\ pc'[t] # "handshake2" => http_client = None
                            /\ first = 1 =>
                                   UNCHANGED <<kasa_setup_auth_hash,
                                               blank_auth_hash>>
                            /\ first = 2 => UNCHANGED blank_auth_hash
          /\ (/\ pc[t] = "handshake2"
              /\ pc'[t] = "idle"
              /\ last_result' = Result("handshake", "ok", Some(200))) =>
                 /\ encryption_session' # None
                 /\ encryption_session'[1].user_hash = loc[t].auth_hash[1]
                 /\ loc[t].payload =
                        Some(handshake2_seed_auth_hash(
                                 encryption_session'[1].local_seed,
                                 encryption_session'[1].remote_seed,
                                 encryption_session'[1].user_hash))
      ]_vars

\* C12 witness: a transport configured with user credentials has completed
\* a handshake on the kasa-setup credentials, and the blank candidate has
\* never been generated.
C12_Witness ==
    /\ credentials = UserCreds
    /\ last_result = Result("handshake", "ok", Some(200))
    /\ encryption_session # None
    /\ encryption_session[1].user_hash = generate_auth_hash(KasaSetupCreds)
    /\ kasa_setup_auth_hash # None
    /\ blank_auth_hash = None

\* C13 as stated: when a handshake succeeds, handshake_done is set, no
\* handshake is needed, the session is the fresh one of this handshake's
\* seeds and auth hash with seq at its derived initial value, and the
\* cookie and the expiry are those of this handshake.  It is stated here of
\* behaviours in which the clock has not advanced.
C13_FreshSession ==
    [][\A t \in Tasks :
          (/\ pc[t] = "handshake2"
           /\ pc'[t] = "idle"
           /\ nticks = 0
           /\ last_result' = Result("handshake", "ok", Some(200))) =>
              /\ handshake_done'
              /\ ~needs_handshake'
              /\ encryption_session' =
                     Some(KlapEncryptionSession(loc[t].local_seed[1],
                                                loc[t].remote_seed[1],
                                                loc[t].auth_hash[1]))
              /\ encryption_session'[1].seq =
                     iv_derive(loc[t].local_seed[1], loc[t].remote_seed[1],
                               loc[t].auth_hash[1]).seq
              /\ client_post_cookies(session_cookie') = loc[t].cookies
              /\ session_expire_at' = Some(now + SESSION_SECONDS)
      ]_vars

\* The TransportSession state is empty.
SessionStateEmpty ==
    /\ ~handshake_done
    /\ session_expire_at = None
    /\ session_cookie = None
    /\ encryption_session = None

\* C14 as stated: after a close(), after a send that received 403, and in
\* every state in which the expiry time has passed, the session state is
\* empty (handshake_done false, expiry and cookie unset, no session), and a
\* handshake is needed after close().  The close() and the passing of the
\* expiry time are those that happen while no other call is in flight.
C14_ResetOnInvalidation ==
    [][/\ \A t \in Tasks :
              (close(t) /\ \A u \in Tasks : pc[u] = "idle") =>
                  (SessionStateEmpty' /\ needs_handshake')
       /\ \A t \in Tasks :
              (/\ pc[t] = "send"
               /\ pc'[t] = "idle"
               /\ last_result'.status = Some(403)) => SessionStateEmpty'
       /\ (/\ \A u \in Tasks : pc[u] = "idle"
           /\ session_expire_at' # None
           /\ session_expire_at'[1] <= now') => SessionStateEmpty'
      ]_vars

\* The failures the spec calls ProtocolError: SmartDeviceException, other
\* than its subclass AuthenticationException.
ProtocolErrors ==
    {HandshakeMustBeComplete, LoginMustBeComplete, send_status_exception(500)}

\* C15 as stated: a send that fails after its POST was issued, on anything
\* but a 403, raises SmartDeviceException and leaves handshake_done as it
\* was.
C15_FailuresAreProtocolError ==
    [][\A t \in Tasks :
          (/\ pc[t] = "send"
           /\ pc'[t] = "idle"
           /\ last_result'.outcome # "ok"
           /\ last_result'.status # Some(403)) =>
              /\ last_result'.outcome \in ProtocolErrors
              /\ handshake_done' = handshake_done
      ]_vars

\* C17: on a KlapTransport needs_login is false in every state, and every
\* call of login ends with the exception "KLAP does not perform logins" and
\* leaves handshake_done, the expiry, the cookie and the encryption session
\* (its seq included) as they were.
C17_LoginAlwaysFails ==
    [][ /\ ~needs_login
        /\ (ncalls' = ncalls + 1 /\ last_result'.call = "login") =>
              /\ last_result'.outcome = KlapDoesNotLogin
              /\ UNCHANGED session_state ]_vars

\* login was called on a handshaken transport whose session had encrypted
\* a request.
C17_Witness ==
    /\ last_result.call = "login"
    /\ last_result.outcome = KlapDoesNotLogin
    /\ handshake_done
    /\ encryption_session # None
    /\ n_encrypt >= 1

\* A step in which KlapTransport.close is called (it has no await that the
\* model splits it at).
KlapCloseStep == ncalls' = ncalls + 1 /\ last_result'.call = "close"

\* A step in which TPLinkSmartHomeProtocol.close is called by a user: it
\* ends at once, or suspends at wait_closed.
XorCloseStep ==
    /\ nqueries' = nqueries + 1
    /\ \/ xresult'.call = "close"
       \/ \E t \in Tasks : xpc[t] = "idle" /\ xpc'[t] = "wait_closed"

\* C16: close is idempotent on both transports.  In every state a call of
\* close ends without an exception of its own (a close that its caller
\* cancels at wait_closed ends with the caller's CancelledError) and leaves
\* the transport without client, reader and writer; no HTTP client and no
\* TCP connection is ever released more than once; and a close of a
\* transport that is already closed changes nothing of the transport.
C16_CloseIdempotent ==
    [][ /\ KlapCloseStep =>
              /\ last_result'.outcome = "ok"
              /\ http_client' = None
              /\ \A i \in DOMAIN clients' : clients'[i] <= 1
              /\ http_client = None =>
                     UNCHANGED <<credentials, device_cookie,
                   clients, kasa_setup_auth_hash,
                                 blank_auth_hash, session_state, http_client,
                                 now, pc, loc, wire_last, n_encrypt>>
        /\ xresult'.call = "close" =>
              xresult'.outcome \in {"ok", "CancelledError"}
        /\ XorCloseStep =>
              /\ reader' = None
              /\ writer' = None
              /\ \A c \in DOMAIN conns' : conns'[c].closes <= 1
              /\ writer = None =>
                     UNCHANGED <<reader, writer, conns, query_lock, xpc,
                                 xloc>>
        /\ \A c \in DOMAIN conns' : conns'[c].closes <= 1
        /\ \A i \in DOMAIN clients' : clients'[i] <= 1 ]_vars

\* A handshaken KlapTransport was closed, its one client released once, and
\* the last of its calls was a close of the closed transport.
C16_Witness ==
    /\ handshake_done
    /\ ncalls = 3
    /\ last_result = Result("close", "ok", None)
    /\ http_client = None
    /\ clients = <<1>>
    /\ n_encrypt = 0

\* The errors the spec calls non-retryable.
NonRetryable(err) ==
    \/ err.type = "ConnectionRefusedError"
    \/ err.type = "OSError" /\ err.errno \in NO_RETRY_ERRORS

\* C18 (safety part): a query never makes more than retry_count + 1
\* attempts; when it raises SmartDeviceException it has made exactly
\* retry_count + 1 attempts, unless a connect failed with a non-retryable
\* error; and the lines after the loop are never reached.
C18_Bounded ==
    /\ \A t \in Tasks :
           /\ xloc[t].retry <= xloc[t].retry_count
           /\ xloc[t].phase # "fall-through"
    /\ xresult.call = "query" =>
           /\ xresult.attempts <= xresult.retry_count + 1
           /\ xresult.phase # "fall-through"
    /\ (xresult.call = "query" /\ xresult.outcome = "SmartDeviceException")
           => \/ xresult.attempts = xresult.retry_count + 1
              \/ /\ xresult.cause[1].phase = "connect"
                 /\ NonRetryable(xresult.cause[1])

\* C18: every query terminates, after at most retry_count + 1 attempts: it
\* returns the response of its first successful attempt, or raises
\* SmartDeviceException after the last allowed attempt has failed, and the
\* lines after the loop are never reached.
C18_Terminates ==
    /\ []C18_Bounded
    /\ \A t \in Tasks : (xpc[t] # "idle") ~> (xpc[t] = "idle")

\* C18 witness: a query with retry_count = 1 has just raised after its
\* second attempt failed in the exchange.
C18_Witness ==
    /\ xresult.call = "query"
    /\ xresult.outcome = "SmartDeviceException"
    /\ xresult.retry_count = 1
    /\ xresult.attempts = 2
    /\ xresult.cause[1].phase = "exchange"

\* In this step an attempt of caller t fails with an exception (not by a
\* cancellation), at the connect or in the exchange.
AttemptFails(t) ==
    /\ xpc[t] \in {"connect", "drain", "read_len", "read_payload"}
    /\ xloc'[t] # xloc[t]
    /\ xpc'[t] \in {"connect", "wait_closed", "idle"}
    /\ xresult'.outcome \notin {"ok", "CancelledError"}

\* The exception it fails with.
FailureOf(t) ==
    IF xpc'[t] = "idle" THEN xresult'.cause[1] ELSE xloc'[t].cause[1]

\* After this step the call of t raises SmartDeviceException with no
\* further attempt, and the connection is closed.
FailsAtOnce(t) ==
    /\ reader' = None
    /\ writer' = None
    /\ \/ /\ xpc'[t] = "idle"
          /\ xresult'.call = "query"
          /\ xresult'.outcome = "SmartDeviceException"
       \/ /\ xpc'[t] = "wait_closed"
          /\ xloc'[t].after_close = "raise"

\* C19 as stated: an attempt that fails with a non-retryable error, at the
\* connect or while the frame is written or read, closes the connection
\* and ends the call at once with SmartDeviceException.
C19_NoRetryAnyPhase ==
    [][\A t \in Tasks :
          (AttemptFails(t) /\ NonRetryable(FailureOf(t))) => FailsAtOnce(t)
      ]_vars

\* C19 amended: a non-retryable error of the connect closes the connection
\* and ends the call at once, at any retry index; a failure of the exchange
\* closes the connection and is retried unless retry_count is exhausted,
\* whatever the error.
C19_NoRetryAtConnect ==
    [][\A t \in Tasks :
          /\ (/\ AttemptFails(t)
              /\ NonRetryable(FailureOf(t))
              /\ FailureOf(t).phase = "connect") => FailsAtOnce(t)
          /\ (AttemptFails(t) /\ FailureOf(t).phase = "exchange") =>
                 /\ reader' = None
                 /\ writer' = None
                 /\ FailsAtOnce(t) <=> xloc[t].retry >= xloc[t].retry_count
      ]_vars

\* C19 witness: a query with retry_count = 1 has just raised after its
\* first connect failed with OSError EHOSTUNREACH.
C19_Witness ==
    /\ xresult.call = "query"
    /\ xresult.outcome = "SmartDeviceException"
    /\ xresult.retry_count = 1
    /\ xresult.attempts = 1
    /\ xresult.cause = Some([type |-> "OSError", errno |-> "EHOSTUNREACH",
                             phase |-> "connect"])

\* The callers inside _query: between the acquisition of the lock and its
\* release.
InQuery ==
    {t \in Tasks :
        \/ xpc[t] \in {"connect", "drain", "read_len", "read_payload"}
        \/ xpc[t] = "wait_closed" /\ xloc[t].after_close # "return"}

\* The part of C20 that is about the lock alone.
C20_MutualExclusion ==
    /\ Cardinality(InQuery) <= 1
    /\ \A t \in InQuery : query_lock = Some(t)

\* C20 as stated: at most one caller is inside the exchange, its retries
\* and reconnects, and the response a query returns is the reply to the
\* request that this query wrote.
C20_QueriesSerialised ==
    /\ C20_MutualExclusion
    /\ (xresult.call = "query" /\ xresult.outcome = "ok") =>
           xresult.reply_to = xresult.query

\* The suspension points of a query: the awaits of _connect and of
\* _execute_query.
QuerySuspensionPoints == {"connect", "drain", "read_len", "read_payload"}

\* C21: when the caller of a query is cancelled at one of its suspension
\* points (connect, drain, read of the length, read of the payload), the
\* connection is closed: reader and writer are cleared and no connection of
\* the transport stays open.
C21_CancelClosesConnection ==
    [][ \A t \in Tasks :
           ( /\ xpc[t] \in QuerySuspensionPoints
             /\ xpc'[t] = "idle"
             /\ xresult'.call = "query"
             /\ xresult'.outcome = "CancelledError" )
           => /\ reader' = None
              /\ writer' = None
              /\ \A c \in DOMAIN conns' : ~conns'[c].open ]_vars

\* The number that four bytes hold, most significant byte first.
BigEndian32(b) ==
    b[1] * 16777216 + b[2] * 65536 + b[3] * 256 + b[4]

\* C22: XOR round trip and framing.  encrypt accepts every text t; the
\* first four bytes of the frame are the length of t's UTF-8 encoding as a
\* big-endian 32-bit number and the frame is 4 + that length bytes long;
\* and decrypt of the frame without its first four bytes is t.
C22_RoundTripAndFraming ==
    /\ crypt_frame # None =>
          LET frame == crypt_frame[1].frame
              utf8 == str_encode(crypt_request).bytes
          IN /\ crypt_frame[1].raised = ""
             /\ Len(frame) = 4 + Len(utf8)
             /\ \A i \in 1..4 : frame[i] \in 0..255
             /\ BigEndian32(frame) = Len(utf8)
    /\ crypt_response # None =>
          /\ crypt_response[1].raised = ""
          /\ crypt_response[1].text = crypt_request

\* The text "€a" (4 bytes of UTF-8 for 2 characters) went through encrypt
\* and decrypt.
C22_Witness ==
    /\ crypt_request = <<8364, 97>>
    /\ crypt_frame # None
    /\ Len(crypt_frame[1].frame) = 8
    /\ crypt_response = Some([raised |-> "", text |-> <<8364, 97>>])

\* The key byte i is combined with: the initial key, then the previous
\* byte of the ciphertext c.
AutoKey(c, i) == IF i = 1 THEN 171 ELSE c[i - 1]

\* C23: XOR auto-key.  The encoding c of the bytes p has c[0] = p[0] XOR
\* 0xAB and c[i] = p[i] XOR c[i-1]; the decoding p of the bytes c has
\* p[0] = c[0] XOR 0xAB and p[i] = c[i] XOR c[i-1].
C23_AutoKey ==
    /\ crypt_encoded # None =>
          LET p == crypt_bytes
              c == crypt_encoded[1]
          IN /\ Len(c) = Len(p)
             /\ \A i \in 1..Len(p) : c[i] = xor(p[i], AutoKey(c, i))
    /\ crypt_decoded # None =>
          LET c == crypt_bytes
              p == crypt_decoded[1]
          IN /\ Len(p) = Len(c)
             /\ \A i \in 1..Len(c) : p[i] = xor(c[i], AutoKey(c, i))

\* The bytes 7b ab ff were encoded to d0 7b 84 and decoded to d0 d0 54.
C23_Witness ==
    /\ crypt_bytes = <<123, 171, 255>>
    /\ crypt_encoded = Some(<<208, 123, 132>>)
    /\ crypt_decoded = Some(<<208, 208, 84>>)

\* C24 as stated: encrypt of the text {"a":1} is 00 00 00 07 followed by
\* db bb c8 f4 c1 c5 f5.
C24_GoldenAsStated ==
    (crypt_request = GoldenRequest /\ crypt_frame # None) =>
        crypt_frame[1].frame =
            <<0, 0, 0, 7, 219, 187, 200, 244, 193, 197, 245>>

\* C24, amended: the text {"a":1} has the UTF-8 bytes 7b 22 61 22 3a 31 7d,
\* and encrypt of it is 00 00 00 07 followed by d0 f2 93 b1 8b ba c7.
C24_Golden ==
    /\ str_encode(GoldenRequest).bytes = <<123, 34, 97, 34, 58, 49, 125>>
    /\ (crypt_request = GoldenRequest /\ crypt_frame # None) =>
           /\ crypt_frame[1].raised = ""
           /\ crypt_frame[1].frame =
                  <<0, 0, 0, 7, 208, 242, 147, 177, 139, 186, 199>>

\* encrypt was applied to the text {"a":1}.
C24_Witness ==
    /\ crypt_request = GoldenRequest
    /\ crypt_frame # None
    /\ Len(crypt_frame[1].frame) = 11

\* The handshake of task t ends in this step with one of the failures of
\* C25: a response other than 200 to handshake1 or to handshake2, or no
\* candidate hash that matches the server hash.
HandshakeFails(t) ==
    /\ pc[t] \in {"handshake1", "handshake2"}
    /\ pc'[t] = "idle"
    /\ last_result'.call = "handshake"
    /\ \/ last_result'.status \notin {None, Some(200)}
       \/ last_result'.outcome = "AuthenticationException"

\* C25: a handshake that fails (handshake1 not 200, no candidate matches,
\* handshake2 not 200) raises AuthenticationException and leaves
\* needs_handshake true, whatever session the transport held before.
C25_FailedHandshakeNeedsHandshake ==
    [][ \A t \in Tasks :
           HandshakeFails(t) =>
               /\ last_result'.outcome = "AuthenticationException"
               /\ needs_handshake' ]_vars

\* Task t posts in this step: it suspends at the POST named by pc'[t].
Posts(t, post) == pc[t] # post /\ pc'[t] = post

\* The cookies of a POST that carries the TP_SESSIONID the device set in its
\* most recent reply to handshake1, and nothing else.
DeviceCookies(cookie) ==
    IF cookie = None THEN {} ELSE {<<"TP_SESSIONID", cookie[1]>>}

\* C26: cookie hygiene.  At every POST the jar of the client is empty and
\* no cookie but TP_SESSIONID is sent; the handshake1 POST carries no
\* cookie; every handshake2 POST and every request POST carries the
\* TP_SESSIONID that the device set in its most recent handshake1 reply.
C26_CookieHygiene ==
    [][ \A t \in Tasks :
           /\ (\E post \in {"handshake1", "handshake2", "send"} :
                   Posts(t, post)) =>
                  /\ http_client' = Some({})
                  /\ \A c \in loc'[t].cookies : c[1] = "TP_SESSIONID"
           /\ Posts(t, "handshake1") => loc'[t].cookies = {}
           /\ (Posts(t, "handshake2") \/ Posts(t, "send")) =>
                  loc'[t].cookies = DeviceCookies(device_cookie') ]_vars

\* The connections that are open.
OpenConns(cs) == {c \in DOMAIN cs : cs[c].open}

\* C27: the transport has at most one connection and closes it on every
\* failure.  At most one connection is open, and it is the writer's; a
\* connection is opened only when there is no writer; a query that returns
\* leaves its connection open as reader and writer; when a query raises
\* SmartDeviceException reader and writer are cleared and no connection is
\* open; and every further attempt of a query starts with no writer, at the
\* connect.
C27_OneConnection ==
    [][ /\ Cardinality(OpenConns(conns')) <= 1
        /\ writer' # None => OpenConns(conns') = {writer'[1]}
        /\ Len(conns') > Len(conns) =>
               /\ writer = None
               /\ Len(conns') = Len(conns) + 1
        /\ (xresult'.call = "query" /\ xresult'.outcome = "ok") =>
               /\ writer' # None
               /\ writer' = writer
               /\ reader' = writer'
               /\ conns'[writer'[1]].open
        /\ (xresult'.call = "query"
            /\ xresult'.outcome = "SmartDeviceException") =>
               /\ reader' = None
               /\ writer' = None
               /\ OpenConns(conns') = {}
        /\ \A t \in Tasks :
               (xpc'[t] # "idle" /\ xloc'[t].retry > xloc[t].retry) =>
                   /\ reader' = None
                   /\ writer' = None
                   /\ OpenConns(conns') = {}
                   /\ xpc'[t] = "connect" ]_vars

\* A query with one retry returned on its second connection, after its
\* first attempt failed in the exchange and closed the first connection.
C27_Witness ==
    /\ xresult.call = "query"
    /\ xresult.outcome = "ok"
    /\ xresult.attempts = 2
    /\ xresult.cause # None
    /\ xresult.cause[1].phase = "exchange"
    /\ writer = Some(2)
    /\ ~conns[1].open
    /\ conns[1].closes = 1
    /\ conns[2].open

\* The TP_SESSIONID of the device session that the seeds of sess belong to.
SessionIdOf(sess) ==
    (CHOOSE d \in DeviceSessions : d.remote_seed = sess.remote_seed).session_id

\* C28: whenever handshake_done is true there is an encryption session, the
\* expiry is set, and the session cookie is the one the device set in the
\* handshake that produced the encryption session (none, if the device set
\* none).
C28_HandshakeDoneHasSession ==
    handshake_done =>
        /\ encryption_session # None
        /\ session_expire_at # None
        /\ session_cookie \in {None, Some(SessionIdOf(encryption_session[1]))}

====
